---- MODULE Spec2Model ----
(***************************************************************************)
(* Model of app/api/estimate/route.ts: the POST handler of /api/estimate.  *)
(* One behaviour is one invocation of POST.  The handler is cut at its     *)
(* awaits: req.formData(), f.arrayBuffer() per image, fetch(), r.json().   *)
(* JavaScript values are modelled with their kind, so that the coercions   *)
(* the handler relies on (||, Number(), Math.max/min, *, JSON output) do   *)
(* what the language does.  Numbers are fixed-point, in hundredths.        *)
(***************************************************************************)
EXTENDS Integers, Sequences, FiniteSets, TLC

\* Largest number of 'images' parts of a request.
MaxImages == 2

\* Numbers are held in hundredths: Math.round(subtotal * 100) / 100.
Cents == 100

(***************************************************************************)
(* JavaScript values                                                       *)
(***************************************************************************)
Num(n) == [k |-> "num", n |-> n, s |-> ""]
Str(s) == [k |-> "str", n |-> 0, s |-> s]
NaN == [k |-> "nan", n |-> 0, s |-> ""]
Undefined == [k |-> "undef", n |-> 0, s |-> ""]
Null == [k |-> "null", n |-> 0, s |-> ""]
\* a function object, such as Object.prototype.toString
Fn == [k |-> "fn", n |-> 0, s |-> ""]

\* ToBoolean, as used by ||, ! and if
Truthy(v) ==
  CASE v.k = "num" -> v.n # 0
    [] v.k = "str" -> v.s # ""
    [] v.k = "fn" -> TRUE
    [] OTHER -> FALSE

\* a || b
OrElse(a, b) == IF Truthy(a) THEN a ELSE b

\* StringToNumber on the strings the model uses
StringToNumber(s) ==
  CASE s = "" -> Num(0)
    [] s = "4" -> Num(4 * Cents)
    [] s = "850" -> Num(850 * Cents)
    [] OTHER -> NaN

\* Number(v)
ToNumber(v) ==
  CASE v.k = "num" -> v
    [] v.k = "str" -> StringToNumber(v.s)
    [] v.k = "null" -> Num(0)
    [] OTHER -> NaN

\* String(v)
ToStringJS(v) ==
  CASE v.k = "str" -> v
    [] v.k = "null" -> Str("null")
    [] v.k = "undef" -> Str("undefined")
    [] v.k = "nan" -> Str("NaN")
    [] OTHER -> Str("[object]")

\* Math.max(a, b) and Math.min(a, b) on numbers: NaN if either is NaN
MathMax(a, b) ==
  IF a.k # "num" \/ b.k # "num" THEN NaN
  ELSE IF a.n >= b.n THEN a ELSE b

MathMin(a, b) ==
  IF a.k # "num" \/ b.k # "num" THEN NaN
  ELSE IF a.n <= b.n THEN a ELSE b

\* JSON.stringify of a property value: NaN is written null, a function or
\* undefined drops the property
ToJSON(v) ==
  CASE v.k = "nan" -> Null
    [] v.k = "fn" -> Undefined
    [] OTHER -> v

(***************************************************************************)
(* Pricing tables of @/lib/pricing (imported on line 5)                    *)
(***************************************************************************)
\* Property names every object literal inherits from Object.prototype.
ObjectPrototypeKeys == {"constructor", "toString"}

\* SERVICE_RATES_PER_SQFT[service]: a Record<string, number> object
SERVICE_RATES_PER_SQFT(s) ==
  CASE s = "house" -> Num(12)
    [] s = "windows" -> Num(25)
    [] s = "roof" -> Num(20)
    [] s = "driveway" -> Num(18)
    [] s = "gutters" -> Num(30)
    [] s \in ObjectPrototypeKeys -> Fn
    [] OTHER -> Undefined

MIN_JOB_FEE == Num(99 * Cents)

\* COMPLEXITY_MULTIPLIER(complexity): 1.0 at complexity 1, +0.1 per point
COMPLEXITY_MULTIPLIER(c) ==
  IF c.k # "num" THEN NaN ELSE Num(Cents + (c.n - Cents) \div 10)

(***************************************************************************)
(* The request, the environment and the inference API's answers            *)
(***************************************************************************)
ServiceNames ==
  {"house", "windows", "roof", "driveway", "gutters", "deck", "constructor"}

\* formData.get("service"): null when the field is absent
FormServices == {Null, Str("")} \cup {Str(s) : s \in ServiceNames}

\* process.env.OPENAI_API_KEY
ApiKeys == {Undefined, Str(""), Str("sk-test")}

\* e.message of a thrown value; Undefined when it has none
Messages == {Str("boom"), Str(""), Undefined}

TypeErrorMessage == Str("Cannot read properties of null")

AreaValues ==
  {Undefined, Null, Num(0), Num(1200 * Cents), Num(-50 * Cents),
   Str("850"), Str("large")}

ComplexityValues ==
  {Undefined, Num(0), Num(50), Num(3 * Cents), Num(7 * Cents),
   Num(-2 * Cents), Str("4"), Str("high")}

NotesValues == {Undefined, Str(""), Str("two-story")}

\* choices[0].message.content, by the JSON text it holds
Content(form, a, c, n) ==
  [form |-> form, area_sqft |-> a, complexity |-> c, notes |-> n]

NoFields(form) == Content(form, Undefined, Undefined, Undefined)

Contents ==
  {NoFields(f) :
     f \in {"absent", "empty", "malformed", "null", "number", "string",
            "array"}}
  \cup {Content("object", a, c, n) :
          a \in AreaValues, c \in ComplexityValues, n \in NotesValues}

\* the value r.json() resolves to: null, an object without choices, or an
\* object whose choices[0].message.content is given
Outs ==
  {[form |-> "null", content |-> NoFields("absent")],
   [form |-> "nochoices", content |-> NoFields("absent")]}
  \cup {[form |-> "content", content |-> c] : c \in Contents}

NoOut == [form |-> "none", content |-> NoFields("absent")]

(***************************************************************************)
(* Responses                                                               *)
(***************************************************************************)
NoBody ==
  [service |-> Undefined, area_sqft |-> Undefined, complexity |-> Undefined,
   rate |-> Undefined, complexity_factor |-> Undefined, total |-> Undefined,
   notes |-> Undefined, images_analyzed |-> Undefined,
   estimation_method |-> Undefined, error |-> Undefined]

\* NextResponse.json(body, {status})
JsonResponse(status, body) ==
  [status |-> status, body |-> [f \in DOMAIN body |-> ToJSON(body[f])]]

ErrorResponse(status, msg) ==
  JsonResponse(status, [NoBody EXCEPT !.error = msg])

\* what a step of the handler ends in: a thrown value or a response
Threw(e) == [threw |-> TRUE, e |-> e, resp |-> ErrorResponse(0, Undefined)]
Returned(resp) == [threw |-> FALSE, e |-> Undefined, resp |-> resp]

(***************************************************************************)
(* The handler's synchronous pieces                                        *)
(***************************************************************************)
\* line 13
ServiceOf(field) == ToStringJS(OrElse(field, Str("house")))

\* line 16
ImagesMissing(n) == n = 0

\* a check that takes only an unset variable for a missing key
KeyMissingUnsetOnly(key) == key.k = "undef"

\* line 21
KeyMissing(key) == ~Truthy(key)

\* the two checks in the opposite order
ValidateKeyFirst(n, key) ==
  IF KeyMissing(key) THEN "nokey"
  ELSE IF ImagesMissing(n) THEN "noimages"
  ELSE "ok"

\* lines 16-23: the two checks in their order
Validate(n, key) ==
  IF ImagesMissing(n) THEN "noimages"
  ELSE IF KeyMissing(key) THEN "nokey"
  ELSE "ok"

\* lines 80-86, read on line 88
baseAreaByService(s) ==
  CASE s = "house" -> Num(1500 * Cents)
    [] s = "windows" -> Num(800 * Cents)
    [] s = "roof" -> Num(1200 * Cents)
    [] s = "driveway" -> Num(400 * Cents)
    [] s = "gutters" -> Num(200 * Cents)
    [] s \in ObjectPrototypeKeys -> Fn
    [] OTHER -> Undefined

SmartNotes ==
  Str("Smart Estimator used - AI analysis temporarily unavailable.")

AiNotes == Str("AI-computed from uploaded photos.")

Estimate(a, c, n, m) ==
  [area_sqft |-> a, complexity |-> c, notes |-> n, estimation_method |-> m]

\* lines 75-91
SmartEstimate(service) ==
  Estimate(OrElse(baseAreaByService(service.s), Num(1000 * Cents)),
           Num(250), SmartNotes, Str("smart"))

\* JSON.parse(content): fails on malformed text
JSONParse(c) == [ok |-> c.form # "malformed", v |-> c]

EmptyObject == NoFields("object")

\* line 94: out.choices?.[0]?.message?.content || "{}"
ContentOf(out) ==
  IF out.form = "content" /\ out.content.form \notin {"absent", "empty"}
  THEN out.content
  ELSE EmptyObject

\* line 96
ParseOrEmpty(c) == IF JSONParse(c).ok THEN JSONParse(c).v ELSE EmptyObject

\* parsed.<field>: undefined on a number, a string or an array
Prop(parsed, field) ==
  IF parsed.form = "object" THEN parsed[field] ELSE Undefined

\* line 98
AiArea(parsed) ==
  MathMax(Num(0), ToNumber(OrElse(Prop(parsed, "area_sqft"), Num(0))))

\* line 99
AiComplexity(parsed) ==
  MathMin(Num(5 * Cents),
          MathMax(Num(Cents),
                  ToNumber(OrElse(Prop(parsed, "complexity"), Num(250)))))

\* line 100
AiNotesOf(parsed) == ToStringJS(OrElse(Prop(parsed, "notes"), AiNotes))

\* line 104
RateOf(service) ==
  LET v == SERVICE_RATES_PER_SQFT(service.s)
  IN  IF v.k \in {"undef", "null"} THEN Num(15) ELSE v

\* lines 106-107
Total(area, rate, factor) ==
  LET a == ToNumber(area)
      r == ToNumber(rate)
      f == ToNumber(factor)
      unit == Cents * Cents
  IN  IF a.k # "num" \/ r.k # "num" \/ f.k # "num" THEN NaN
      ELSE LET prod == a.n * r.n * f.n
               floor == MIN_JOB_FEE.n * unit
               subtotal == IF prod > floor THEN prod ELSE floor
           IN  Num((subtotal + unit \div 2) \div unit)

\* lines 104-112
Quote(service, est, n) ==
  LET rate == RateOf(service)
      factor == COMPLEXITY_MULTIPLIER(est.complexity)
  IN  JsonResponse(200,
        [NoBody EXCEPT !.service = service,
                       !.area_sqft = est.area_sqft,
                       !.complexity = est.complexity,
                       !.rate = rate,
                       !.complexity_factor = factor,
                       !.total = Total(est.area_sqft, rate, factor),
                       !.notes = est.notes,
                       !.images_analyzed = Num(n * Cents),
                       !.estimation_method = est.estimation_method])

\* lines 94-112, once r.json() has resolved to out
AiQuote(service, out, n) ==
  IF out.form = "null" THEN Threw(TypeErrorMessage)
  ELSE LET parsed == ParseOrEmpty(ContentOf(out))
       IN  IF parsed.form = "null" THEN Threw(TypeErrorMessage)
           ELSE Returned(Quote(service,
                               Estimate(AiArea(parsed), AiComplexity(parsed),
                                        AiNotesOf(parsed), Str("ai")),
                               n))

\* a catch that returns e.message as it is
CatchNoDefault(e) == ErrorResponse(500, e)

\* lines 113-115
Catch(e) == ErrorResponse(500, OrElse(e, Str("Unexpected error")))

\* try { ... } catch (e) { ... } around a step
Settle(o) == IF o.threw THEN Catch(o.e) ELSE o.resp

(***************************************************************************)
(* State of one invocation of POST                                         *)
(***************************************************************************)
VARIABLES
  apiKey,       \* process.env.OPENAI_API_KEY
  formService,  \* the form's 'service' field
  nImages,      \* number of 'images' parts of the form
  pc,           \* the await the handler stands at: form, images, fetch, body, done
  formData,     \* pending, read or failed
  service,      \* line 13
  dataUrls,     \* number of data URLs pushed so far
  fetchCalls,   \* calls made to the inference endpoint
  r,            \* none, threw, notok or ok
  out,          \* what r.json() resolved to
  thrown,       \* the step that threw, and the thrown value's message
  responses     \* the responses POST has returned

vars ==
  <<apiKey, formService, nImages, pc, formData, service, dataUrls, fetchCalls,
    r, out, thrown, responses>>

NotThrown == [at |-> "none", e |-> Undefined]

Init ==
  /\ apiKey \in ApiKeys
  /\ formService \in FormServices
  /\ nImages \in 0..MaxImages
  /\ pc = "form"
  /\ formData = "pending"
  /\ service = Undefined
  /\ dataUrls = 0
  /\ fetchCalls = 0
  /\ r = "none"
  /\ out = NoOut
  /\ thrown = NotThrown
  /\ responses = <<>>

\* the step at `at` ends in outcome o, and with it the invocation
Finish(at, o) ==
  /\ pc' = "done"
  /\ thrown' = IF o.threw THEN [at |-> at, e |-> o.e] ELSE thrown
  /\ responses' = Append(responses, Settle(o))

\* lines 12-26: await req.formData(), the two checks
ReadFormFails ==
  /\ pc = "form"
  /\ \E e \in Messages :
       /\ formData' = "failed"
       /\ Finish("form", Threw(e))
  /\ UNCHANGED <<apiKey, formService, nImages, service, dataUrls, fetchCalls,
                 r, out>>

ReadForm ==
  /\ pc = "form"
  /\ formData' = "read"
  /\ service' = ServiceOf(formService)
  /\ LET v == Validate(nImages, apiKey)
     IN  IF v = "noimages"
         THEN Finish("form",
                     Returned(ErrorResponse(400, Str("No images uploaded"))))
         ELSE IF v = "nokey"
         THEN Finish("form",
                     Returned(ErrorResponse(500,
                                Str("Missing OPENAI_API_KEY on server"))))
         ELSE /\ pc' = IF nImages = 0 THEN "fetch" ELSE "images"
              /\ UNCHANGED <<thrown, responses>>
  /\ UNCHANGED <<apiKey, formService, nImages, dataUrls, fetchCalls, r, out>>

\* lines 27-32: await f.arrayBuffer() of the next image
ReadImageFails ==
  /\ pc = "images"
  /\ \E e \in Messages : Finish("image", Threw(e))
  /\ UNCHANGED <<apiKey, formService, nImages, formData, service, dataUrls,
                 fetchCalls, r, out>>

ReadImage ==
  /\ pc = "images"
  /\ dataUrls' = dataUrls + 1
  /\ pc' = IF dataUrls + 1 < nImages THEN "images" ELSE "fetch"
  /\ UNCHANGED <<apiKey, formService, nImages, formData, service, fetchCalls,
                 r, out, thrown, responses>>

\* line 61: the call itself throws
CallInferenceThrows ==
  /\ pc = "fetch"
  /\ fetchCalls' = fetchCalls + 1
  /\ r' = "threw"
  /\ \E e \in Messages : Finish("fetch", Threw(e))
  /\ UNCHANGED <<apiKey, formService, nImages, formData, service, dataUrls,
                 out>>

\* a handler that calls the endpoint again after a response that is not OK
CallInferenceNotOkRetry ==
  /\ pc = "fetch"
  /\ fetchCalls < 3
  /\ fetchCalls' = fetchCalls + 1
  /\ r' = "notok"
  /\ UNCHANGED <<apiKey, formService, nImages, pc, formData, service,
                 dataUrls, out, thrown, responses>>

\* lines 61-91, 104-112: a response that is not OK
CallInferenceNotOk ==
  /\ pc = "fetch"
  /\ fetchCalls' = fetchCalls + 1
  /\ r' = "notok"
  /\ Finish("fetch", Returned(Quote(service, SmartEstimate(service), dataUrls)))
  /\ UNCHANGED <<apiKey, formService, nImages, formData, service, dataUrls,
                 out>>

\* lines 61-75: an OK response; the handler goes on to await r.json()
CallInferenceOk ==
  /\ pc = "fetch"
  /\ fetchCalls' = fetchCalls + 1
  /\ r' = "ok"
  /\ pc' = "body"
  /\ UNCHANGED <<apiKey, formService, nImages, formData, service, dataUrls,
                 out, thrown, responses>>

\* line 93: the body cannot be read as JSON
ReadBodyFails ==
  /\ pc = "body"
  /\ \E e \in Messages : Finish("body", Threw(e))
  /\ UNCHANGED <<apiKey, formService, nImages, formData, service, dataUrls,
                 fetchCalls, r, out>>

\* lines 93-112
ReadBody ==
  /\ pc = "body"
  /\ \E o \in Outs :
       /\ out' = o
       /\ Finish("parse", AiQuote(service, o, dataUrls))
  /\ UNCHANGED <<apiKey, formService, nImages, formData, service, dataUrls,
                 fetchCalls, r>>

Next ==
  \/ ReadFormFails
  \/ ReadForm
  \/ ReadImageFails
  \/ ReadImage
  \/ CallInferenceThrows
  \/ CallInferenceNotOk
  \/ CallInferenceOk
  \/ ReadBodyFails
  \/ ReadBody

Spec == Init /\ [][Next]_vars

\* the response of a finished invocation
Done == pc = "done" /\ Len(responses) = 1
Resp == responses[1]

(***************************************************************************)
(* Properties                                                              *)
(***************************************************************************)
MissingKeyError == Str("Missing OPENAI_API_KEY on server")
NoImagesError == Str("No images uploaded")

KeyConfigured == apiKey.k = "str" /\ apiKey.s # ""

\* C1: every request with at least one image and a configured key gets a 200
\* response carrying a quote, whatever the outcome of the inference call
\* (not OK, the call throws, an unreadable body, malformed content).
C1_QuoteWhateverTheCallDoes ==
  (Done /\ formData = "read" /\ nImages >= 1 /\ KeyConfigured /\ r # "none")
    => (Resp.status = 200 /\ Resp.body.total.k = "num")

\* C2 as stated: for every request (its form read), whenever the key is unset
\* or empty, the response is 500 with error "Missing OPENAI_API_KEY on server".
C2_MissingKeyAlways500 ==
  (Done /\ formData = "read" /\ ~KeyConfigured)
    => (Resp.status = 500 /\ Resp.body.error = MissingKeyError)

\* C2 amended: when the form was read and has at least one image, and the
\* key is unset or empty, the response is 500 with error
\* "Missing OPENAI_API_KEY on server".
C2_MissingKeyWithImages500 ==
  (Done /\ formData = "read" /\ nImages >= 1 /\ ~KeyConfigured)
    => (Resp.status = 500 /\ Resp.body.error = MissingKeyError)

C2_Witness ==
  /\ Done /\ formData = "read" /\ nImages >= 1 /\ apiKey = Str("")
  /\ Resp.status = 500 /\ Resp.body.error = MissingKeyError

\* C3: a request whose form has no 'images' part is answered 400 with error
\* "No images uploaded", whatever the service and whether or not the key is
\* configured.
C3_NoImages400 ==
  (Done /\ formData = "read" /\ nImages = 0)
    => (Resp.status = 400 /\ Resp.body.error = NoImagesError)

C3_Witness ==
  /\ Done /\ formData = "read" /\ nImages = 0 /\ ~KeyConfigured
  /\ formService = Str("deck")
  /\ Resp.status = 400

\* C4: on an OK inference response whose content is malformed, absent or JSON
\* that is no object (null, a number, a string, an array), the response is
\* 200 with area_sqft 0, complexity 2.5, the default notes and method "ai".
C4_BadContentGivesDefaults ==
  (Done /\ r = "ok"
     /\ (\/ out.form = "nochoices"
         \/ /\ out.form = "content"
            /\ out.content.form \in {"absent", "empty", "malformed", "null",
                                     "number", "string", "array"}))
    => /\ Resp.status = 200
       /\ Resp.body.area_sqft = Num(0)
       /\ Resp.body.complexity = Num(250)
       /\ Resp.body.notes = AiNotes
       /\ Resp.body.estimation_method = Str("ai")

\* C5: on the AI path the complexity returned is a number between 1 and 5,
\* whatever the model put in the complexity field.
C5_ComplexityClamped ==
  (Done /\ Resp.status = 200 /\ Resp.body.estimation_method = Str("ai"))
    => /\ Resp.body.complexity.k = "num"
       /\ Resp.body.complexity.n >= Cents
       /\ Resp.body.complexity.n <= 5 * Cents

\* the static lookup of C6, in square feet
StaticArea(s) ==
  CASE s = "house" -> 1500
    [] s = "windows" -> 800
    [] s = "roof" -> 1200
    [] s = "driveway" -> 400
    [] s = "gutters" -> 200
    [] OTHER -> 1000

\* C6: after an inference response that is not OK, the response has method
\* "smart", complexity 2.5 and the static lookup area of the service, 1000
\* for any other service string.
C6_SmartEstimate ==
  (Done /\ r = "notok")
    => /\ Resp.body.estimation_method = Str("smart")
       /\ Resp.body.complexity = Num(250)
       /\ Resp.body.area_sqft = Num(StaticArea(service.s) * Cents)

\* C7: on every 200 response, total = round2(max(MIN_JOB_FEE, area_sqft *
\* rate * complexity_factor)) over the values echoed in the response, with
\* complexity_factor = COMPLEXITY_MULTIPLIER(complexity) and rate the table
\* entry of the service, 0.15 when it has none.
C7_TotalFormula ==
  (Done /\ Resp.status = 200)
    => LET b == Resp.body
           unit == Cents * Cents
           prod == b.area_sqft.n * b.rate.n * b.complexity_factor.n
           floor == MIN_JOB_FEE.n * unit
           subtotal == IF prod > floor THEN prod ELSE floor
       IN  /\ b.total.k = "num" /\ b.area_sqft.k = "num"
           /\ b.rate.k = "num" /\ b.complexity_factor.k = "num"
           /\ b.total.n = (subtotal + unit \div 2) \div unit
           /\ b.complexity_factor = COMPLEXITY_MULTIPLIER(b.complexity)
           /\ b.rate = IF b.service.s \in {"house", "windows", "roof",
                                           "driveway", "gutters"}
                       THEN SERVICE_RATES_PER_SQFT(b.service.s)
                       ELSE Num(15)

\* C8: on every 200 response total is a number, at least MIN_JOB_FEE.
C8_TotalAtLeastMinimum ==
  (Done /\ Resp.status = 200)
    => (Resp.body.total.k = "num" /\ Resp.body.total.n >= MIN_JOB_FEE.n)

C10_OneCallAfterChecks ==
  /\ fetchCalls <= 1
  /\ fetchCalls = 1 =>
       /\ formData = "read" /\ nImages >= 1 /\ KeyConfigured
       /\ dataUrls = nImages
  /\ (Done /\ Resp.status = 400) => fetchCalls = 0
  /\ (Done /\ Resp.body.error = MissingKeyError) => fetchCalls = 0

C10_Witness ==
  Done /\ r = "notok" /\ fetchCalls = 1 /\ Resp.status = 200

====
